---------------------------- MODULE Spec2Model ----------------------------
(***************************************************************************)
(* A model of dictionary/models/author.py of django-sozluk: the Author     *)
(* account, its nickname validator, its derived queries, the Memento       *)
(* table and the UserVerification (e-mail verification token) table.       *)
(*                                                                         *)
(* The relational store is the state: one variable per table, rows as      *)
(* records carrying their primary key.  Every model method is one action   *)
(* that takes the instance's fields as inputs.  Time is counted in hours.  *)
(***************************************************************************)
EXTENDS Integers, Sequences, FiniteSets

(* ------------------------------ bounds -------------------------------- *)
MaxAuthorId == 2
MaxTokenId == 2
MaxMementoId == 2
MaxEntryId == 2
MaxCategoryId == 2
MaxVoteRate == 3
MaxLen == 3
MaxNow == 60
TickHours == 12
NumRequests == 2
MaxRows == 3

(* ------------------------- program constants -------------------------- *)
\* `self.pk is None`: the primary key of an instance that was never stored.
\* Stored rows have keys 1, 2, ...
NoPk == 0
\* datetime.timedelta(hours=24) of email_confirmed
FreshHours == 24
\* Decimal("1") of entry_nice
NiceThreshold == 1

AuthorIds == 1..MaxAuthorId
CategoryIds == 1..MaxCategoryId
EntryIds == 1..MaxEntryId
Requests == 1..NumRequests

VARIABLES
    authors,               \* primary keys of the stored Author rows
    lastAuthorId,          \* the Author table's AutoField sequence
    categories,            \* primary keys of the stored Category rows
    following_categories,  \* Author pk -> set of Category pks (the M2M join rows)
    pinned_entry,          \* Author pk -> Entry pk, or NoPk for NULL
    tokens,                \* the UserVerification rows
    lastTokenId,           \* the UserVerification table's AutoField sequence
    mementos,              \* the Memento rows
    lastMementoId,         \* the Memento table's AutoField sequence
    entries,               \* the Entry rows
    lastEntryId,           \* the Entry table's AutoField sequence
    now,                   \* timezone.now(), in hours
    nick,                  \* the last handle given to nick_validator and its verdict
    nice,                  \* the last account asked for entry_nice and the answer
    req,                   \* the concurrent requests, each inside UserVerification.save
    lastOp                 \* the last operation called, its inputs and its outcome

vars == <<authors, lastAuthorId, categories, following_categories, pinned_entry,
          tokens, lastTokenId, mementos, lastMementoId, entries, lastEntryId,
          now, nick, nice, req, lastOp>>

authorVars == <<authors, lastAuthorId, following_categories, pinned_entry>>
tokenVars == <<tokens, lastTokenId>>
mementoVars == <<mementos, lastMementoId>>
entryVars == <<entries, lastEntryId>>

\* The record kept of the last call: its name and, where a property speaks of
\* them, the instance's fields and what the call found and raised.
Op(name) ==
    [name |-> name, author |-> NoPk, pk |-> NoPk, id |-> NoPk,
     verification_token |-> "", new_email |-> "None", expiration_date |-> 0,
     at |-> 0, had |-> FALSE, previous |-> "", patient |-> NoPk, body |-> "",
     inserted |-> FALSE, error |-> ""]

IdleRequest == [pc |-> "idle", author |-> NoPk, verification_token |-> ""]

Init ==
    /\ authors = {}
    /\ lastAuthorId = 0
    /\ categories = {}
    /\ following_categories = [a \in AuthorIds |-> {}]
    /\ pinned_entry = [a \in AuthorIds |-> NoPk]
    /\ tokens = {}
    /\ lastTokenId = 0
    /\ mementos = {}
    /\ lastMementoId = 0
    /\ entries = {}
    /\ lastEntryId = 0
    /\ now = 0
    /\ nick = [username |-> <<>>, result |-> "none"]
    /\ nice = [author |-> NoPk, entry |-> NoPk]
    /\ req = [p \in Requests |-> IdleRequest]
    /\ lastOp = Op("init")

(* ------------------------------ Author -------------------------------- *)

\* Author.save.  pk is the instance's primary key when save is called: NoPk for
\* an instance that was never stored, else the key the caller gave it or the
\* key of the row it was loaded from.  super().save() updates the row with
\* that key when there is one and inserts a row otherwise.
AuthorSave(pk) ==
    LET created == (pk = NoPk)
        id == IF created THEN lastAuthorId + 1 ELSE pk
    IN  /\ id \in AuthorIds
        /\ authors' = authors \cup {id}
        /\ lastAuthorId' = IF id > lastAuthorId THEN id ELSE lastAuthorId
        /\ following_categories' =
              IF created
              THEN [following_categories EXCEPT ![id] = @ \cup categories]
              ELSE following_categories
        /\ lastOp' = [Op("AuthorSave") EXCEPT !.pk = pk, !.id = id,
                                              !.inserted = (id \notin authors)]
        /\ UNCHANGED <<categories, pinned_entry, tokenVars, mementoVars,
                       entryVars, now, nick, nice, req>>

(* -------------------------- UserVerification -------------------------- *)

\* DeleteByAuthor with the DELETE left out.
DeleteByAuthor_Nothing(rows, a) == rows

\* UserVerification.objects.filter(author=a).delete()
DeleteByAuthor(rows, a) == {r \in rows : r.author # a}

\* models.Model.save of one row: UPDATE the row with the instance's key when
\* the instance has a key and such a row is stored, INSERT otherwise.
ModelSave(rows, row) == {r \in rows : r.id # row.id} \cup {row}

\* UserVerificationSave with the two statements of save swapped: the row is
\* stored first and the author's rows are deleted after it.
UserVerificationSave_DeleteLast(pk, a, tok, email, exp) ==
    LET id == IF pk = NoPk THEN lastTokenId + 1 ELSE pk
        row == [id |-> id, author |-> a, verification_token |-> tok,
                new_email |-> email, expiration_date |-> exp]
    IN  /\ a \in authors
        /\ id \in 1..MaxTokenId
        /\ pk # NoPk => pk <= lastTokenId
        /\ tokens' = DeleteByAuthor(ModelSave(tokens, row), a)
        /\ lastTokenId' = IF pk = NoPk THEN id ELSE lastTokenId
        /\ lastOp' = [Op("UserVerificationSave") EXCEPT
                         !.pk = pk, !.id = id, !.author = a,
                         !.verification_token = tok, !.new_email = email,
                         !.expiration_date = exp, !.at = now]
        /\ UNCHANGED <<authorVars, categories, mementoVars, entryVars,
                       now, nick, nice, req>>

\* UserVerification.save.  pk is NoPk for a new instance, else the key of a row
\* saved before (an instance loaded or kept from an earlier save, its fields
\* possibly changed).  The ForeignKey needs the author row to exist.
UserVerificationSave(pk, a, tok, email, exp) ==
    LET id == IF pk = NoPk THEN lastTokenId + 1 ELSE pk
        row == [id |-> id, author |-> a, verification_token |-> tok,
                new_email |-> email, expiration_date |-> exp]
    IN  /\ a \in authors
        /\ id \in 1..MaxTokenId
        /\ pk # NoPk => pk <= lastTokenId
        /\ tokens' = ModelSave(DeleteByAuthor(tokens, a), row)
        /\ lastTokenId' = IF pk = NoPk THEN id ELSE lastTokenId
        /\ lastOp' = [Op("UserVerificationSave") EXCEPT
                         !.pk = pk, !.id = id, !.author = a,
                         !.verification_token = tok, !.new_email = email,
                         !.expiration_date = exp, !.at = now,
                         !.had = (\E r \in tokens : r.author = a),
                         !.previous =
                            IF \E r \in tokens : r.author = a
                            THEN (CHOOSE r \in tokens : r.author = a)
                                     .verification_token
                            ELSE ""]
        /\ UNCHANGED <<authorVars, categories, mementoVars, entryVars,
                       now, nick, nice, req>>

\* The verification flow consumes a token: it deletes the row.
UserVerificationDelete(id) ==
    /\ \E r \in tokens : r.id = id
    /\ tokens' = {r \in tokens : r.id # id}
    /\ lastOp' = Op("UserVerificationDelete")
    /\ UNCHANGED <<authorVars, categories, lastTokenId, mementoVars, entryVars,
                   now, nick, nice, req>>

\* MementoCascade with on_delete=CASCADE on the holder key only.
MementoCascade_HolderOnly(rows, a) == {m \in rows : m.holder # a}

\* on_delete=models.CASCADE of Memento.holder and Memento.patient: the rows
\* left when account a is deleted.
MementoCascade(rows, a) == {m \in rows : m.holder # a /\ m.patient # a}

\* on_delete=models.CASCADE of UserVerification.author: the rows left when
\* account a is deleted.
TokenCascade(rows, a) == {r \in rows : r.author # a}

\* Deleting an account (Model.delete): the collector removes the row and, with
\* it, every row that references it through an on_delete=CASCADE key: the
\* Mementos it holds or is the patient of, its UserVerification rows and its
\* join rows.  Accounts that still have entries are left alone here: the
\* Entry.author key is declared outside this file.

AuthorDelete(a) ==
    /\ a \in authors
    /\ ~ \E e \in entries : e.author = a
    /\ authors' = authors \ {a}
    /\ following_categories' = [following_categories EXCEPT ![a] = {}]
    /\ pinned_entry' = [pinned_entry EXCEPT ![a] = NoPk]
    /\ tokens' = TokenCascade(tokens, a)
    /\ mementos' = MementoCascade(mementos, a)
    /\ lastOp' = [Op("AuthorDelete") EXCEPT !.author = a]
    /\ UNCHANGED <<lastAuthorId, categories, lastTokenId, lastMementoId,
                   entryVars, now, nick, nice, req>>

\* timezone.now() moves on; nothing is called.
Tick ==
    /\ now + TickHours <= MaxNow
    /\ now' = now + TickHours
    /\ UNCHANGED <<authorVars, categories, tokenVars, mementoVars, entryVars,
                   nick, nice, req, lastOp>>

\* email_confirmed with expiration_date__gt for expiration_date__gte.
email_confirmed_gt(a) ==
    ~ \E r \in tokens : r.author = a /\ r.expiration_date > now - FreshHours

\* Author.email_confirmed
email_confirmed(a) ==
    ~ \E r \in tokens : r.author = a /\ r.expiration_date >= now - FreshHours

(* ----------------------------- Category ------------------------------- *)

\* A Category row is created (by the collaborator that owns categories).
CategoryCreate(c) ==
    /\ c \in CategoryIds \ categories
    /\ categories' = categories \cup {c}
    /\ lastOp' = Op("CategoryCreate")
    /\ UNCHANGED <<authorVars, tokenVars, mementoVars, entryVars,
                   now, nick, nice, req>>

\* following_categories.remove(c): the account stops following a category.
Unfollow(a, c) ==
    /\ a \in authors
    /\ c \in following_categories[a]
    /\ following_categories' = [following_categories EXCEPT ![a] = @ \ {c}]
    /\ lastOp' = Op("Unfollow")
    /\ UNCHANGED <<authors, lastAuthorId, pinned_entry, categories, tokenVars,
                   mementoVars, entryVars, now, nick, nice, req>>

(* ------------------------------ Memento ------------------------------- *)

\* unique_memento with the constraint left out of Meta.constraints.
unique_memento_absent(rows, row) == TRUE

\* UniqueConstraint(fields=['holder', 'patient'], name='unique_memento'):
\* whether the table accepts `row` beside the rows it holds.
unique_memento(rows, row) ==
    ~ \E r \in rows : /\ r.id # row.id
                      /\ r.holder = row.holder
                      /\ r.patient = row.patient

\* Memento(holder=h, patient=p, body=body).save() of a new instance, as the
\* admin site does it: a plain INSERT, which the constraint may refuse.
MementoSave(h, p, body) ==
    LET row == [id |-> lastMementoId + 1, holder |-> h, patient |-> p,
                body |-> body]
        ok == unique_memento(mementos, row)
    IN  /\ h \in authors /\ p \in authors
        /\ row.id <= MaxMementoId
        /\ mementos' = IF ok THEN ModelSave(mementos, row) ELSE mementos
        /\ lastMementoId' = IF ok THEN row.id ELSE lastMementoId
        /\ lastOp' = [Op("MementoSave") EXCEPT
                         !.author = h, !.patient = p, !.body = body,
                         !.inserted = ok,
                         !.error = IF ok THEN "" ELSE "IntegrityError"]
        /\ UNCHANGED <<authorVars, categories, tokenVars, entryVars,
                       now, nick, nice, req>>

\* The upsert of a Memento by its holder: the INSERT is tried, and the
\* constraint's refusal is turned into an UPDATE of the stored row's body.
MementoUpsert(h, p, body) ==
    LET row == [id |-> lastMementoId + 1, holder |-> h, patient |-> p,
                body |-> body]
        ok == unique_memento(mementos, row)
    IN  /\ h \in authors /\ p \in authors
        /\ ok => row.id <= MaxMementoId
        /\ mementos' =
              IF ok THEN ModelSave(mementos, row)
              ELSE {IF m.holder = h /\ m.patient = p
                    THEN [m EXCEPT !.body = body] ELSE m : m \in mementos}
        /\ lastMementoId' = IF ok THEN row.id ELSE lastMementoId
        /\ lastOp' = [Op("MementoUpsert") EXCEPT
                         !.author = h, !.patient = p, !.body = body,
                         !.inserted = ok,
                         !.had = (\E m \in mementos :
                                     m.holder = h /\ m.patient = p),
                         !.previous =
                            IF \E m \in mementos : m.holder = h /\ m.patient = p
                            THEN (CHOOSE m \in mementos :
                                     m.holder = h /\ m.patient = p).body
                            ELSE ""]
        /\ UNCHANGED <<authorVars, categories, tokenVars, entryVars,
                       now, nick, nice, req>>

(* ------------------------------- Entry -------------------------------- *)

\* An Entry row is written by its author.
EntryCreate(a, published, rate) ==
    /\ a \in authors
    /\ lastEntryId + 1 \in EntryIds
    /\ entries' = entries \cup {[id |-> lastEntryId + 1, author |-> a,
                                 published |-> published, vote_rate |-> rate]}
    /\ lastEntryId' = lastEntryId + 1
    /\ lastOp' = Op("EntryCreate")
    /\ UNCHANGED <<authorVars, categories, tokenVars, mementoVars,
                   now, nick, nice, req>>

\* Votes move an entry's vote_rate.
EntryVote(id, rate) ==
    /\ \E e \in entries : e.id = id /\ e.vote_rate # rate
    /\ entries' = {IF e.id = id THEN [e EXCEPT !.vote_rate = rate] ELSE e :
                   e \in entries}
    /\ lastOp' = Op("EntryVote")
    /\ UNCHANGED <<authorVars, categories, tokenVars, mementoVars, lastEntryId,
                   now, nick, nice, req>>

\* pinned_entry = OneToOneField('Entry', null=True, on_delete=SET_NULL): the
\* account pins an entry and is saved (an update: its key is set).  One entry
\* is pinned by at most one account.
PinEntry(a, id) ==
    LET ok == ~ \E b \in authors : b # a /\ pinned_entry[b] = id
    IN  /\ a \in authors
        /\ \E e \in entries : e.id = id
        /\ pinned_entry' = IF ok THEN [pinned_entry EXCEPT ![a] = id]
                           ELSE pinned_entry
        /\ lastOp' = [Op("PinEntry") EXCEPT
                         !.error = IF ok THEN "" ELSE "IntegrityError"]
        /\ UNCHANGED <<authors, lastAuthorId, following_categories, categories,
                       tokenVars, mementoVars, entryVars, now, nick, nice, req>>

\* on_delete=models.SET_NULL of Author.pinned_entry
SetNull(pins, id) == [a \in AuthorIds |-> IF pins[a] = id THEN NoPk ELSE pins[a]]

\* An Entry row is deleted; lastOp.author is the account that had it pinned.
EntryDelete(id) ==
    /\ \E e \in entries : e.id = id
    /\ entries' = {e \in entries : e.id # id}
    /\ pinned_entry' = SetNull(pinned_entry, id)
    /\ lastOp' = [Op("EntryDelete") EXCEPT
                     !.id = id,
                     !.had = (\E a \in authors : pinned_entry[a] = id),
                     !.author = IF \E a \in authors : pinned_entry[a] = id
                                THEN CHOOSE a \in authors : pinned_entry[a] = id
                                ELSE NoPk]
    /\ UNCHANGED <<authors, lastAuthorId, following_categories, categories,
                   tokenVars, mementoVars, lastEntryId, now, nick, nice, req>>

\* Entry.objects_published.filter(author=a)
objects_published(a) == {e \in entries : e.published /\ e.author = a}

\* .order_by("-vote_rate").first(): the rows that may come first (the store
\* breaks ties as it likes); the empty set stands for first() returning None.
order_by_vote_rate_first(rows) ==
    {e \in rows : \A f \in rows : f.vote_rate <= e.vote_rate}

\* entry_nice with `>=` for `>`.
entry_nice_ge(a) ==
    LET first == order_by_vote_rate_first(objects_published(a))
    IN  IF first = {} THEN {NoPk}
        ELSE {IF e.vote_rate >= NiceThreshold THEN e.id ELSE NoPk : e \in first}

\* Author.entry_nice: the values the property may return, an Entry's key or
\* NoPk for None.
entry_nice(a) ==
    LET first == order_by_vote_rate_first(objects_published(a))
    IN  IF first = {} THEN {NoPk}
        ELSE {IF e.vote_rate > NiceThreshold THEN e.id ELSE NoPk : e \in first}

\* A caller reads Author.entry_nice of account a.
EntryNice(a) ==
    /\ a \in authors
    /\ \E v \in entry_nice(a) : nice' = [author |-> a, entry |-> v]
    /\ lastOp' = [Op("entry_nice") EXCEPT !.author = a]
    /\ UNCHANGED <<authorVars, categories, tokenVars, mementoVars, entryVars,
                   now, nick, req>>

(* ------------------------ AuthorNickValidator ------------------------- *)

\* The characters handles are drawn from: lowercase letters and the space, an
\* uppercase letter, a digit, punctuation, a Turkish letter ("c," stands for
\* c-cedilla) and the newline character ("LF").
LowerOrSpace == {"a", "z", " "}
Alphabet == LowerOrSpace \cup {"A", "7", "_", "c,", "LF"}
Handles == UNION {[1..n -> Alphabet] : n \in 0..MaxLen}

\* `$` without re.MULTILINE, after k characters of s were matched: the end of
\* the string, or just before a newline that ends the string.
DollarMatches(s, k) ==
    \/ k = Len(s)
    \/ k = Len(s) - 1 /\ s[Len(s)] = "LF"

\* regex.search(s) of r'^[a-z\ ]+$' (flags = 0): `^` anchors the match at the
\* start, `[a-z\ ]+` takes k >= 1 characters.
RegexSearch(s) ==
    \E k \in 1..Len(s) :
        /\ \A i \in 1..k : s[i] \in LowerOrSpace
        /\ DollarMatches(s, k)

\* nick_validator(username): RegexValidator.__call__ raises ValidationError
\* when the regex does not match.
NickValidate(username) ==
    /\ nick' = [username |-> username,
                result |-> IF RegexSearch(username) THEN "valid"
                           ELSE "ValidationError"]
    /\ lastOp' = [Op("nick_validator") EXCEPT
                     !.error = IF RegexSearch(username) THEN ""
                               ELSE "ValidationError"]
    /\ UNCHANGED <<authorVars, categories, tokenVars, mementoVars, entryVars,
                   now, nice, req>>

(* ------------- UserVerification.save, requests interleaved ------------- *)

\* A request builds UserVerification(author=a, verification_token=tok, ...)
\* and calls save.  The bound keeps the key sequence within MaxTokenId.
RequestBegin(p, a, tok) ==
    /\ req[p].pc = "idle"
    /\ a \in authors
    /\ lastTokenId + Cardinality({q \in Requests : req[q].pc # "idle"})
           < MaxTokenId
    /\ req' = [req EXCEPT ![p] = [pc |-> "delete", author |-> a,
                                  verification_token |-> tok]]
    /\ lastOp' = Op("RequestBegin")
    /\ UNCHANGED <<authorVars, categories, tokenVars, mementoVars, entryVars,
                   now, nick, nice>>

\* The first statement of save: the DELETE, committed as it runs.
RequestDelete(p) ==
    /\ req[p].pc = "delete"
    /\ tokens' = DeleteByAuthor(tokens, req[p].author)
    /\ req' = [req EXCEPT ![p].pc = "insert"]
    /\ lastOp' = Op("RequestDelete")
    /\ UNCHANGED <<authorVars, categories, lastTokenId, mementoVars, entryVars,
                   now, nick, nice>>

\* The second statement of save: super().save(), the INSERT of the new row.
RequestInsert(p) ==
    /\ req[p].pc = "insert"
    /\ tokens' = ModelSave(tokens,
                   [id |-> lastTokenId + 1, author |-> req[p].author,
                    verification_token |-> req[p].verification_token,
                    new_email |-> "None", expiration_date |-> now])
    /\ lastTokenId' = lastTokenId + 1
    /\ req' = [req EXCEPT ![p] = IdleRequest]
    /\ lastOp' = Op("RequestInsert")
    /\ UNCHANGED <<authorVars, categories, mementoVars, entryVars,
                   now, nick, nice>>

(* --------------------------- specifications --------------------------- *)

TokenValues == {"t1", "t2"}
Emails == {"None", "new@mail"}

\* The verification tokens, one operation after the other.
NextToken ==
    \/ AuthorSave(NoPk)
    \/ \E pk \in 0..MaxTokenId, a \in AuthorIds, tok \in TokenValues,
          email \in Emails, exp \in {0, FreshHours} :
          UserVerificationSave(pk, a, tok, email, exp)
    \/ \E id \in 1..MaxTokenId : UserVerificationDelete(id)
    \/ \E a \in AuthorIds : AuthorDelete(a)

SpecToken == Init /\ [][NextToken]_vars

\* The freshness window of a token: tokens are issued with an expiration_date
\* of the caller's choice and the clock moves on.
NextExpiry ==
    \/ AuthorSave(NoPk)
    \/ \E a \in AuthorIds,
          exp \in {now - 3 * TickHours, now, now + FreshHours} \cap Nat :
          UserVerificationSave(NoPk, a, "t1", "None", exp)
    \/ \E id \in 1..MaxTokenId : UserVerificationDelete(id)
    \/ Tick

SpecExpiry == Init /\ [][NextExpiry]_vars

\* Accounts and categories: accounts are saved with and without a key of
\* their own, categories appear, accounts stop following them.
NextAuthor ==
    \/ \E pk \in 0..MaxAuthorId : AuthorSave(pk)
    \/ \E c \in CategoryIds : CategoryCreate(c)
    \/ \E a \in AuthorIds, c \in CategoryIds : Unfollow(a, c)
    \/ \E a \in AuthorIds : AuthorDelete(a)

SpecAuthor == Init /\ [][NextAuthor]_vars

\* Handles are given to the nickname validator.
NextNick == \E username \in Handles : NickValidate(username)

SpecNick == Init /\ [][NextNick]_vars

\* Requests that issue tokens at the same time: the two statements of
\* UserVerification.save of one request interleave with those of the others.
NextConcurrent ==
    \/ AuthorSave(NoPk)
    \/ \E p \in Requests, a \in AuthorIds, tok \in TokenValues :
          RequestBegin(p, a, tok)
    \/ \E p \in Requests : RequestDelete(p)
    \/ \E p \in Requests : RequestInsert(p)

SpecConcurrent == Init /\ [][NextConcurrent]_vars

Bodies == {"x", "y"}

\* Mementos are written, by the upsert and by a plain save, and accounts go.
NextMemento ==
    \/ AuthorSave(NoPk)
    \/ \E h \in AuthorIds, p \in AuthorIds, body \in Bodies :
          MementoSave(h, p, body)
    \/ \E h \in AuthorIds, p \in AuthorIds, body \in Bodies :
          MementoUpsert(h, p, body)
    \/ \E a \in AuthorIds : AuthorDelete(a)

SpecMemento == Init /\ [][NextMemento]_vars

\* Entries are written and voted on, and entry_nice is read.
NextEntry ==
    \/ AuthorSave(NoPk)
    \/ \E a \in AuthorIds, published \in BOOLEAN, rate \in 0..MaxVoteRate :
          EntryCreate(a, published, rate)
    \/ \E id \in EntryIds, rate \in 0..MaxVoteRate : EntryVote(id, rate)
    \/ \E a \in AuthorIds : EntryNice(a)

SpecEntry == Init /\ [][NextEntry]_vars

\* Deletions: accounts with their tokens and mementos, entries that are pinned.
\* At most MaxRows token, memento and entry rows are written in all.
RowsWritten == lastTokenId + lastMementoId + lastEntryId

NextCascade ==
    \/ AuthorSave(NoPk)
    \/ \E a \in AuthorIds :
          /\ RowsWritten < MaxRows
          /\ UserVerificationSave(NoPk, a, "t1", "None", FreshHours)
    \/ \E h \in AuthorIds, p \in AuthorIds :
          /\ RowsWritten < MaxRows
          /\ MementoUpsert(h, p, "x")
    \/ \E a \in AuthorIds :
          /\ RowsWritten < MaxRows
          /\ EntryCreate(a, TRUE, 0)
    \/ \E a \in AuthorIds, id \in EntryIds : PinEntry(a, id)
    \/ \E id \in EntryIds : EntryDelete(id)
    \/ \E a \in AuthorIds : AuthorDelete(a)

SpecCascade == Init /\ [][NextCascade]_vars

(* ------------------------------- claims ------------------------------- *)

TokensOf(a) == {r \in tokens : r.author = a}

\* C1: in every state reached by saving new token rows, re-saving stored ones,
\* deleting tokens and deleting accounts, one after the other, every account
\* owns at most one UserVerification row.
C1_AtMostOneTokenPerAccount ==
    \A a \in AuthorIds : Cardinality(TokensOf(a)) <= 1

\* C1 witness: a stored row was saved again for an account that had a token,
\* while another account holds a token too.
C1_Witness ==
    /\ lastOp.name = "UserVerificationSave"
    /\ lastOp.pk # NoPk
    /\ lastOp.had
    /\ Cardinality(tokens) = 2
    /\ Cardinality(TokensOf(lastOp.author)) = 1

\* C2: right after a token is issued for account A, A has exactly one token
\* row and it carries the verification_token, new_email and expiration_date
\* of that issuance, whatever was issued for A before.
C2_LastIssuedTokenSurvives ==
    lastOp.name = "UserVerificationSave" =>
        TokensOf(lastOp.author) =
            {[id |-> lastOp.id, author |-> lastOp.author,
              verification_token |-> lastOp.verification_token,
              new_email |-> lastOp.new_email,
              expiration_date |-> lastOp.expiration_date]}

\* C2 witness: a second, different token was issued for an account whose
\* first token was still stored, and the second one is the row that is left.
C2_Witness ==
    /\ lastOp.name = "UserVerificationSave"
    /\ lastOp.pk = NoPk
    /\ lastOp.previous = "t1"
    /\ lastOp.verification_token = "t2"
    /\ lastOp.new_email = "new@mail"
    /\ \A r \in TokensOf(lastOp.author) : r.verification_token = "t2"
    /\ Cardinality(TokensOf(lastOp.author)) = 1

\* C4 as stated: an account without a token row is confirmed, and an account
\* whose token was the last thing issued is unconfirmed exactly while no more
\* than 24 hours have passed since the issuance.
C4_ConfirmedByIssuanceAge ==
    \A a \in authors :
        /\ TokensOf(a) = {} => email_confirmed(a)
        /\ (lastOp.name = "UserVerificationSave" /\ lastOp.author = a) =>
              (email_confirmed(a) <=> now - lastOp.at > FreshHours)

\* C4 amended: an account without a token row is confirmed, and an account
\* whose token was the last thing issued is unconfirmed exactly while no more
\* than 24 hours have passed since the expiration_date given at the issuance.
C4_ConfirmedByExpirationAge ==
    \A a \in authors :
        /\ TokensOf(a) = {} => email_confirmed(a)
        /\ (lastOp.name = "UserVerificationSave" /\ lastOp.author = a) =>
              (email_confirmed(a) <=>
                  now - lastOp.expiration_date > FreshHours)

\* C4 witness: a token that made its account unconfirmed when it was issued
\* has aged out with nothing but the clock moving, its row still stored.
C4_Witness ==
    /\ lastOp.name = "UserVerificationSave"
    /\ lastOp.expiration_date >= lastOp.at - FreshHours
    /\ now > lastOp.at
    /\ now - lastOp.expiration_date > FreshHours
    /\ TokensOf(lastOp.author) # {}
    /\ email_confirmed(lastOp.author)

\* C3: while token issuances for one account run at the same time, their
\* delete and insert steps interleaved, no state shows two token rows of that
\* account.
C3_NoTwoTokensVisible ==
    \A r \in tokens, t \in tokens : r.author = t.author => r = t

\* C5: the save that creates account A leaves A following exactly the
\* categories that exist, and no later operation adds a category to the
\* following set of an account that exists.
C5_NewAccountFollowsExistingCategories ==
    [][/\ (lastOp'.name = "AuthorSave" /\ lastOp'.inserted) =>
              following_categories'[lastOp'.id] = categories
       /\ \A a \in authors \cap authors' :
              following_categories'[a] \subseteq following_categories[a]]_vars

\* C6: Author.save adds the existing categories to the account's following
\* set on the save that inserts the account's row, however the instance got
\* its key, and leaves every following set as it was on any other save.
C6_BootstrapExactlyOnInsert ==
    [][lastOp'.name = "AuthorSave" =>
          IF lastOp'.inserted
          THEN following_categories' =
                  [following_categories EXCEPT ![lastOp'.id] = categories]
          ELSE following_categories' = following_categories]_vars

\* C7: a handle the nickname validator accepts has no character outside the
\* lowercase letters and the space, at any position.
C7_OnlyLowercaseAndSpaceAccepted ==
    nick.result = "valid" =>
        \A i \in 1..Len(nick.username) : nick.username[i] \in LowerOrSpace

MementosOf(h, p) == {m \in mementos : m.holder = h /\ m.patient = p}

C9_EntryNiceIsBestAboveThreshold ==
    lastOp.name = "entry_nice" =>
        LET mine == {e \in entries : e.author = nice.author /\ e.published}
        IN  /\ nice.entry # NoPk <=>
                  \E e \in mine : e.vote_rate > NiceThreshold
            /\ nice.entry # NoPk =>
                  \E e \in mine :
                      /\ e.id = nice.entry
                      /\ e.vote_rate > NiceThreshold
                      /\ \A f \in mine : f.vote_rate <= e.vote_rate

\* C9 witness: entry_nice answered with an entry while another entry, a draft
\* or another account's, is rated higher.
C9_Witness ==
    /\ lastOp.name = "entry_nice"
    /\ nice.entry # NoPk
    /\ \E e \in entries, f \in entries :
          /\ e.id = nice.entry
          /\ f.vote_rate > e.vote_rate

\* C10: no Memento and no token row references an account that is not stored,
\* no account pins an entry that is not stored, and the account that had
\* pinned a deleted entry is still stored, its pinned_entry null.
C10_DeletionsLeaveNoDanglingRows ==
    /\ \A m \in mementos : m.holder \in authors /\ m.patient \in authors
    /\ \A r \in tokens : r.author \in authors
    /\ \A a \in authors :
          pinned_entry[a] # NoPk => \E e \in entries : e.id = pinned_entry[a]
    /\ (lastOp.name = "EntryDelete" /\ lastOp.had) =>
          /\ lastOp.author \in authors
          /\ pinned_entry[lastOp.author] = NoPk
    /\ lastOp.name = "AuthorDelete" =>
          /\ lastOp.author \notin authors
          /\ ~ \E m \in mementos :
                m.holder = lastOp.author \/ m.patient = lastOp.author
          /\ TokensOf(lastOp.author) = {}

\* C10 witness: an account's pinned entry was deleted and the account is
\* still there, after the mementos and tokens that had been written were all
\* removed with the accounts they referenced.
C10_Witness ==
    /\ lastOp.name = "EntryDelete"
    /\ lastOp.had
    /\ lastOp.author \in authors
    /\ pinned_entry[lastOp.author] = NoPk
    /\ lastMementoId > 0 /\ mementos = {}
    /\ lastTokenId > 0 /\ tokens = {}

====
